---------------------------- MODULE Spec2Model ----------------------------
(***************************************************************************)
(* Model of timesketch/lib/utils.py: get_csv_dialect,                      *)
(* read_and_validate_csv, read_and_validate_jsonl, get_validated_indices.  *)
(*                                                                         *)
(* The two readers are Python generators.  A generator is modelled by the  *)
(* position it is suspended at (pc), the file handle of its with-block     *)
(* (fh), the rows it has handed to its caller (out) and the exception that *)
(* ended it (err).  One pull of the caller (next()) is one action: it runs *)
(* the generator's code up to the next yield, the end, or an exception.    *)
(*                                                                         *)
(* Python values are tagged records, so that a string, an integer, None,   *)
(* a datetime object and a list are different values of the model.         *)
(***************************************************************************)
EXTENDS Integers, Sequences, FiniteSets, TLC

VARIABLES
    fn,              \* the function of utils.py that was called
    indices,         \* get_validated_indices: argument
    sketch_indices,  \* get_validated_indices: argument
    validated,       \* get_validated_indices: returned list
    csv_header,      \* reader.fieldnames: the header row of the CSV file
    csv_dialect,     \* result of get_csv_dialect(csv_header)
    csv_rows,        \* the data rows of the CSV file, each a list of cells
    reader,          \* csv.DictReader: number of data rows consumed so far
    jsonl_lines,     \* the lines of the JSONL file
    lineno,          \* read_and_validate_jsonl: lineno
    fh,              \* the file handle: "unopened", "open" or "closed"
    pc,              \* where the function / generator is
    out,             \* the rows yielded to the caller, in order
    err,             \* the exception that left the generator, or NoError
    skipped          \* data rows the CSV reader dropped without yielding

vars == <<fn, indices, sketch_indices, validated, csv_header, csv_dialect,
          csv_rows, reader, jsonl_lines, lineno, fh, pc, out, err, skipped>>

---------------------------------------------------------------------------
(* Bounds of the model.                                                    *)

MaxIndices == 3

MaxExtra == 1

MaxRows == 3

MaxLines == 2

---------------------------------------------------------------------------
(* Helpers.                                                                *)

Range(s) == {s[i] : i \in 1..Len(s)}

Min(a, b) == IF a < b THEN a ELSE b

SeqsUpTo(S, n) == UNION {[1..k -> S] : k \in 0..n}

Reverse(s) == [i \in 1..Len(s) |-> s[Len(s) + 1 - i]]

---------------------------------------------------------------------------
(* Python values.                                                          *)

PyStr(text) == [t |-> "str", s |-> text, n |-> 0, us |-> 0, items |-> <<>>]

PyInt(k) == [t |-> "int", s |-> "", n |-> k, us |-> 0, items |-> <<>>]

None == [t |-> "none", s |-> "", n |-> 0, us |-> 0, items |-> <<>>]

\* a datetime.datetime object: whole seconds since the epoch and microseconds
DateTime(secs, micros) ==
    [t |-> "datetime", s |-> "", n |-> secs, us |-> micros, items |-> <<>>]

\* the string datetime.isoformat() renders for (secs, micros)
IsoStr(secs, micros) ==
    [t |-> "str", s |-> "iso8601", n |-> secs, us |-> micros, items |-> <<>>]

List(elems) == [t |-> "list", s |-> "", n |-> 0, us |-> 0, items |-> elems]

\* the outcome of a call that may raise
Ok(v) == [ok |-> TRUE, exc |-> "", val |-> v]

Raise(e) == [ok |-> FALSE, exc |-> e, val |-> None]

\* exceptions that leave a generator
NoError == [type |-> "", text |-> "", line |-> 0, fields |-> <<>>]

Error(type, text, line, fields) ==
    [type |-> type, text |-> text, line |-> line, fields |-> fields]

---------------------------------------------------------------------------
(* get_validated_indices                                                   *)

get_validated_indices_inverted(idx, sketch) ==
    LET exclude == Range(idx) \ Range(sketch)
    IN  IF exclude # {}
        THEN SelectSeq(idx, LAMBDA index : index \in exclude)
        ELSE idx

get_validated_indices(idx, sketch) ==
    LET exclude == Range(idx) \ Range(sketch)
    IN  IF exclude # {}
        THEN SelectSeq(idx, LAMBDA index : index \notin exclude)
        ELSE idx

IndexNames == {"a", "b", "c"}

---------------------------------------------------------------------------
(* get_csv_dialect                                                         *)

redline_fields == {"Alert", "Tag", "Timestamp", "Field", "Summary"}

timesketch_fields == {"message", "datetime", "timestamp_desc"}

\* the return value None of get_csv_dialect
NoDialect == "None"

get_csv_dialect_timesketch_first(header) ==
    LET redline_intersection == redline_fields \cap Range(header)
        timesketch_intersection == timesketch_fields \cap Range(header)
    IN  IF Cardinality(timesketch_fields) = Cardinality(timesketch_intersection)
        THEN "timesketch"
        ELSE IF Cardinality(redline_fields) = Cardinality(redline_intersection)
        THEN "redline"
        ELSE NoDialect

get_csv_dialect(header) ==
    LET redline_intersection == redline_fields \cap Range(header)
        timesketch_intersection == timesketch_fields \cap Range(header)
    IN  IF Cardinality(redline_fields) = Cardinality(redline_intersection)
        THEN "redline"
        ELSE IF Cardinality(timesketch_fields) = Cardinality(timesketch_intersection)
        THEN "timesketch"
        ELSE NoDialect

---------------------------------------------------------------------------
(* Library calls the readers make.                                         *)

\* The date strings of the model's files, with what dateutil reads in them:
\* <<whole seconds since the epoch, microseconds>>.  The local time zone of
\* time.mktime and datetime.fromtimestamp is UTC here.
DateStrings ==
    [d \in {"1970-01-01 00:00:07", "1970-01-01 00:00:09.500000"} |->
        IF d = "1970-01-01 00:00:07" THEN <<7, 0>> ELSE <<9, 500000>>]

\* dateutil.parser.parse(v): a datetime for a string holding a date,
\* ValueError for a string holding none (the empty string too),
\* TypeError for anything that is not a string (None)
parse(v) ==
    IF v.t # "str" THEN Raise("TypeError")
    ELSE IF v.s = "iso8601" THEN Ok(DateTime(v.n, v.us))
    ELSE IF v.s \in DOMAIN DateStrings
         THEN Ok(DateTime(DateStrings[v.s][1], DateStrings[v.s][2]))
         ELSE Raise("ValueError")

\* int(time.mktime(parsed_datetime.timetuple())): timetuple() has no
\* microseconds, mktime gives whole seconds
mktime(dt) == dt.n

isoformat(dt) == IsoStr(dt.n, dt.us)

\* substr in csv_dialect, for the two names the reader tests: a TypeError
\* when csv_dialect is None
Contains(substr, dialect) ==
    IF dialect = NoDialect THEN Raise("TypeError")
    ELSE Ok(substr = dialect)

\* csv.DictReader: the dict of one data row.  Every header column is a key;
\* a row shorter than the header has None (restval) for the missing cells.
LastIndex(header, k) ==
    CHOOSE i \in 1..Len(header) :
        header[i] = k /\ \A j \in (i + 1)..Len(header) : header[j] # k

DictRow(header, cells) ==
    [k \in Range(header) |->
        IF LastIndex(header, k) <= Len(cells)
        THEN PyStr(cells[LastIndex(header, k)])
        ELSE None]

---------------------------------------------------------------------------
(* read_and_validate_csv                                                   *)

\* what one run of the generator ends in, with the number of data rows
\* read and the data rows dropped on the way
Yield(row, src, dropped) ==
    [kind |-> "yield", row |-> row, src |-> src, exc |-> NoError,
     dropped |-> dropped]

Stop(src, dropped) ==
    [kind |-> "stop", row |-> <<>>, src |-> src, exc |-> NoError,
     dropped |-> dropped]

Fail(e, src, dropped) ==
    [kind |-> "raise", row |-> <<>>, src |-> src, exc |-> e,
     dropped |-> dropped]

\* the timestamp of lines 89-90 and 107-108
csv_timestamp_with_micros(parsed_datetime) ==
    PyInt(mktime(parsed_datetime) * 1000000 + parsed_datetime.us)

csv_timestamp(parsed_datetime) == PyInt(mktime(parsed_datetime) * 1000000)

\* the body of the redline loop for one row
redline_row(row) ==
    LET p == parse(row["Timestamp"])
    IN  IF ~p.ok THEN Raise(p.exc)
        ELSE Ok([k \in {"message", "timestamp", "datetime", "timestamp_desc",
                        "alert", "tag"} |->
                   CASE k = "message" -> row["Summary"]
                     [] k = "timestamp" -> csv_timestamp(p.val)
                     [] k = "datetime" -> isoformat(p.val)
                     [] k = "timestamp_desc" -> row["Field"]
                     [] k = "alert" -> row["Alert"]
                     [] k = "tag" -> List(<<row["Tag"]>>)])

\* the body of the timesketch loop for one row: the row to yield, "skip"
\* for the continue of line 110, or the exception that propagates
timesketch_row_no_guard(header, row) ==
    IF "timestamp" \notin Range(header) /\ "datetime" \in Range(header)
    THEN LET p == parse(row["datetime"])
         IN  IF ~p.ok
             THEN Ok(row)
             ELSE Ok([k \in DOMAIN row \cup {"timestamp"} |->
                        IF k = "timestamp" THEN csv_timestamp(p.val)
                        ELSE row[k]])
    ELSE Ok(row)

timesketch_row(header, row) ==
    IF "timestamp" \notin Range(header) /\ "datetime" \in Range(header)
    THEN LET p == parse(row["datetime"])
         IN  IF ~p.ok
             THEN IF p.exc = "ValueError" THEN Raise("skip") ELSE Raise(p.exc)
             ELSE Ok([k \in DOMAIN row \cup {"timestamp"} |->
                        IF k = "timestamp" THEN csv_timestamp(p.val)
                        ELSE row[k]])
    ELSE Ok(row)

\* for row in reader, from data row i on, until a yield, the end of the
\* file or an exception.  DictReader passes over rows without any cell.
RECURSIVE csv_loop(_, _, _, _, _)
csv_loop(dialect, header, rows, i, dropped) ==
    IF i > Len(rows) THEN Stop(Len(rows), dropped)
    ELSE IF rows[i] = <<>>
    THEN csv_loop(dialect, header, rows, i + 1, dropped)
    ELSE LET r == IF dialect = "redline"
                  THEN redline_row(DictRow(header, rows[i]))
                  ELSE timesketch_row(header, DictRow(header, rows[i]))
         IN  IF r.ok THEN Yield(r.val, i, dropped)
             ELSE IF r.exc = "skip"
             THEN csv_loop(dialect, header, rows, i + 1, Append(dropped, i))
             ELSE Fail(Error(r.exc, "", 0, <<>>), i, dropped)

\* lines 86-113: the dispatch on the dialect, then the loop
csv_body(dialect, header, rows, i, dropped) ==
    LET isRedline == Contains("redline", dialect)
        isTimesketch == Contains("timesketch", dialect)
    IN  IF ~isRedline.ok
        THEN Fail(Error(isRedline.exc, "", 0, <<>>), i - 1, dropped)
        ELSE IF isRedline.val
        THEN csv_loop("redline", header, rows, i, dropped)
        ELSE IF isTimesketch.val
        THEN csv_loop("timesketch", header, rows, i, dropped)
        ELSE Fail(Error("RuntimeError", "Unknown CSV format", 0, <<>>),
                  i - 1, dropped)

\* leaving the with-block of line 81 closes the file, however it is left
with_exit_leaks_on_error(kind) ==
    IF kind = "yield" \/ kind = "raise" THEN "open" ELSE "closed"

with_exit(kind) == IF kind = "yield" THEN "open" ELSE "closed"

\* the generator's position after a run
after(kind) ==
    CASE kind = "yield" -> "suspended"
      [] kind = "stop" -> "done"
      [] kind = "raise" -> "failed"

\* what the caller has received: the row with the data row / line it is from
Received(r) == [row |-> r.row, src |-> r.src]

\* the first next(): open the file, read the header, find the dialect, run
CsvFirstPull ==
    /\ fn = "read_and_validate_csv"
    /\ pc = "created"
    /\ LET dialect == get_csv_dialect(csv_header)
           r == csv_body(dialect, csv_header, csv_rows, 1, <<>>)
       IN  /\ csv_dialect' = dialect
           /\ reader' = r.src
           /\ skipped' = r.dropped
           /\ out' = IF r.kind = "yield" THEN Append(out, Received(r)) ELSE out
           /\ err' = r.exc
           /\ fh' = with_exit(r.kind)
           /\ pc' = after(r.kind)
    /\ UNCHANGED <<fn, indices, sketch_indices, validated, csv_header, csv_rows,
                   jsonl_lines, lineno>>

\* a later next(): resume after the yield, inside the loop
CsvPull ==
    /\ fn = "read_and_validate_csv"
    /\ pc = "suspended"
    /\ LET r == csv_loop(csv_dialect, csv_header, csv_rows, reader + 1, skipped)
       IN  /\ reader' = r.src
           /\ skipped' = r.dropped
           /\ out' = IF r.kind = "yield" THEN Append(out, Received(r)) ELSE out
           /\ err' = r.exc
           /\ fh' = with_exit(r.kind)
           /\ pc' = after(r.kind)
    /\ UNCHANGED <<fn, indices, sketch_indices, validated, csv_header, csv_dialect,
                   csv_rows, jsonl_lines, lineno>>

\* the caller gives the generator up (close(), or the last reference goes):
\* GeneratorExit is raised at the yield and leaves the with-block; a
\* generator that never ran has opened nothing
GenClose ==
    /\ pc \in {"created", "suspended"}
    /\ fh' = IF pc = "suspended" THEN with_exit("close") ELSE fh
    /\ pc' = "closed"
    /\ UNCHANGED <<fn, indices, sketch_indices, validated, csv_header, csv_dialect,
                   csv_rows, reader, jsonl_lines, lineno, out, err, skipped>>

---------------------------------------------------------------------------
(* read_and_validate_jsonl                                                 *)

mandatory_fields == <<"message", "datetime", "timestamp_desc">>

\* One line of the file: a blank line, text that is no JSON, a JSON array,
\* or a JSON object (obj: its keys and values).
Line(kind, obj) == [kind |-> kind, obj |-> obj]

\* json.loads(line): ValueError unless the line holds a JSON value
json_loads(line) ==
    IF line.kind \in {"blank", "garbage"} THEN Raise("ValueError")
    ELSE Ok(line.kind)

\* str(v), as the list of its characters
DigitChars == <<"0", "1", "2", "3", "4", "5", "6", "7", "8", "9">>

RECURSIVE int_chars(_)
int_chars(k) ==
    IF k < 10 THEN <<DigitChars[k + 1]>>
    ELSE Append(int_chars(k \div 10), DigitChars[(k % 10) + 1])

str_chars(v) ==
    CASE v.t = "int" -> int_chars(v.n)
      [] v.t = "str" /\ v.s = "1420113600123" ->
            <<"1", "4", "2", "0", "1", "1", "3", "6", "0", "0", "1", "2", "3">>
      [] v.t = "str" /\ v.s = "abc" -> <<"a", "b", "c">>
      [] OTHER -> <<"N", "o", "n", "e">>

DigitValue(c) == (CHOOSE d \in 1..10 : DigitChars[d] = c) - 1

\* int(chars): ValueError unless chars is a non-empty run of digits
RECURSIVE digits_value(_)
digits_value(chars) ==
    IF chars = <<>> THEN 0
    ELSE digits_value(SubSeq(chars, 1, Len(chars) - 1)) * 10
         + DigitValue(chars[Len(chars)])

int_of(chars) ==
    IF chars # <<>> /\ \A i \in 1..Len(chars) : chars[i] \in Range(DigitChars)
    THEN Ok(PyInt(digits_value(chars)))
    ELSE Raise("ValueError")

\* str(v)[:10]
first10(chars) == SubSeq(chars, 1, Min(10, Len(chars)))

\* datetime.datetime.fromtimestamp(epoch)
fromtimestamp(epoch) == DateTime(epoch.n, 0)

\* lines 131-134: datetime from timestamp
backfill_datetime(linedict, ld_keys) ==
    IF "datetime" \notin ld_keys /\ "timestamp" \in ld_keys
    THEN LET epoch == int_of(first10(str_chars(linedict["timestamp"])))
         IN  IF ~epoch.ok THEN Raise(epoch.exc)
             ELSE Ok([k \in DOMAIN linedict \cup {"datetime"} |->
                        IF k = "datetime"
                        THEN isoformat(fromtimestamp(epoch.val))
                        ELSE linedict[k]])
    ELSE Ok(linedict)

\* lines 135-136: timestamp from datetime, the parsed datetime object itself
backfill_timestamp(linedict, ld_keys) ==
    IF "timestamp" \notin ld_keys /\ "datetime" \in ld_keys
    THEN LET p == parse(linedict["datetime"])
         IN  IF ~p.ok THEN Raise(p.exc)
             ELSE Ok([k \in DOMAIN linedict \cup {"timestamp"} |->
                        IF k = "timestamp" THEN p.val ELSE linedict[k]])
    ELSE Ok(linedict)

missing_fields_first_only(linedict) ==
    LET all == SelectSeq(mandatory_fields,
                         LAMBDA field : field \notin DOMAIN linedict)
    IN  IF all = <<>> THEN <<>> ELSE <<all[1]>>

\* lines 138-141
missing_fields(linedict) ==
    SelectSeq(mandatory_fields, LAMBDA field : field \notin DOMAIN linedict)

jsonl_except_line_before(exc, n) ==
    IF exc = "ValueError"
    THEN Error("RuntimeError", "Error parsing JSON at line", n - 1, <<>>)
    ELSE Error(exc, "", 0, <<>>)

\* except ValueError as e: raise RuntimeError(... lineno, e); any other
\* exception propagates as it is
jsonl_except(exc, n) ==
    IF exc = "ValueError"
    THEN Error("RuntimeError", "Error parsing JSON at line", n, <<>>)
    ELSE Error(exc, "", 0, <<>>)

\* lines 127-152: the body of the loop for line number n
jsonl_line(line, n) ==
    LET j == json_loads(line)
    IN  IF ~j.ok THEN Fail(jsonl_except(j.exc, n), n, <<>>)
        ELSE IF j.val # "object"
        THEN Fail(jsonl_except("AttributeError", n), n, <<>>)
        ELSE LET ld_keys == DOMAIN line.obj
                 a == backfill_datetime(line.obj, ld_keys)
             IN  IF ~a.ok THEN Fail(jsonl_except(a.exc, n), n, <<>>)
                 ELSE LET b == backfill_timestamp(a.val, ld_keys)
                      IN  IF ~b.ok THEN Fail(jsonl_except(b.exc, n), n, <<>>)
                          ELSE IF missing_fields(b.val) # <<>>
                          THEN Fail(Error("RuntimeError",
                                          "Missing field(s) at line", n,
                                          missing_fields(b.val)), n, <<>>)
                          ELSE Yield(b.val, n, <<>>)

RECURSIVE jsonl_loop_skips_blank(_, _)
jsonl_loop_skips_blank(lines, n) ==
    IF n >= Len(lines) THEN Stop(n, <<>>)
    ELSE IF lines[n + 1].kind = "blank"
    THEN jsonl_loop_skips_blank(lines, n + 1)
    ELSE jsonl_line(lines[n + 1], n + 1)

\* for line in fh: the next line, or the end of the file
jsonl_loop(lines, n) ==
    IF n >= Len(lines) THEN Stop(n, <<>>)
    ELSE jsonl_line(lines[n + 1], n + 1)

\* the first next(): open the file, lineno = 0, run the loop
JsonlFirstPull ==
    /\ fn = "read_and_validate_jsonl"
    /\ pc = "created"
    /\ LET r == jsonl_loop(jsonl_lines, 0)
       IN  /\ lineno' = r.src
           /\ out' = IF r.kind = "yield" THEN Append(out, Received(r)) ELSE out
           /\ err' = r.exc
           /\ fh' = with_exit(r.kind)
           /\ pc' = after(r.kind)
    /\ UNCHANGED <<fn, indices, sketch_indices, validated, csv_header,
                   csv_dialect, csv_rows, reader, jsonl_lines, skipped>>

\* a later next(): resume after the yield
JsonlPull ==
    /\ fn = "read_and_validate_jsonl"
    /\ pc = "suspended"
    /\ LET r == jsonl_loop(jsonl_lines, lineno)
       IN  /\ lineno' = r.src
           /\ out' = IF r.kind = "yield" THEN Append(out, Received(r)) ELSE out
           /\ err' = r.exc
           /\ fh' = with_exit(r.kind)
           /\ pc' = after(r.kind)
    /\ UNCHANGED <<fn, indices, sketch_indices, validated, csv_header,
                   csv_dialect, csv_rows, reader, jsonl_lines, skipped>>

---------------------------------------------------------------------------
(* The calls of the two plain functions.                                   *)

GetCsvDialect ==
    /\ fn = "get_csv_dialect"
    /\ pc = "called"
    /\ csv_dialect' = get_csv_dialect(csv_header)
    /\ pc' = "returned"
    /\ UNCHANGED <<fn, indices, sketch_indices, validated, csv_header,
                   csv_rows, reader, jsonl_lines, lineno, fh, out, err,
                   skipped>>

GetValidatedIndices ==
    /\ fn = "get_validated_indices"
    /\ pc = "called"
    /\ validated' = get_validated_indices(indices, sketch_indices)
    /\ pc' = "returned"
    /\ UNCHANGED <<fn, indices, sketch_indices, csv_header, csv_dialect,
                   csv_rows, reader, jsonl_lines, lineno, fh, out, err,
                   skipped>>

---------------------------------------------------------------------------
(* Inputs.                                                                 *)

\* column names, in a fixed order; the first MaxExtra of ExtraColumns are
\* columns neither dialect asks for
ExtraColumns == <<"source", "host", "user", "note">>

AllColumns ==
    <<"Alert", "Tag", "Timestamp", "Field", "Summary",
      "message", "datetime", "timestamp_desc", "timestamp">>
    \o SubSeq(ExtraColumns, 1, Min(MaxExtra, Len(ExtraColumns)))

\* headers: any set of columns, in either order, the first column repeated
\* at the end or not
HeaderInputs ==
    {LET h == SelectSeq(AllColumns, LAMBDA c : c \in S)
         o == IF rev THEN Reverse(h) ELSE h
     IN  IF dup /\ o # <<>> THEN Append(o, o[1]) ELSE o :
        S \in SUBSET Range(AllColumns), rev \in BOOLEAN, dup \in BOOLEAN}

\* the headers of the CSV files
CsvHeaders ==
    {<<"Alert", "Tag", "Timestamp", "Field", "Summary">>,
     <<"message", "datetime", "timestamp_desc">>,
     <<"message", "datetime", "timestamp_desc", "timestamp">>,
     <<"message", "datetime">>}

\* the cells a column may hold
Cells(column) ==
    IF column \in {"Timestamp", "datetime"}
    THEN {"1970-01-01 00:00:07", "1970-01-01 00:00:09.500000",
          "not a date", ""}
    ELSE IF column = "timestamp" THEN {"7000000", "abc"}
    ELSE {"text"}

\* the data rows under a header: a cell for each of the first k columns
\* (k = 0: a row without cells; k < Len(header): a short row)
DataRows(header) ==
    UNION {{r \in [1..k -> UNION {Cells(header[j]) : j \in 1..Len(header)}] :
               \A j \in 1..k : r[j] \in Cells(header[j])} :
           k \in 0..Len(header)}

\* the JSON objects of the JSONL files
JsonObjects ==
    {[k \in K |->
        CASE k = "message" -> PyStr("m")
          [] k = "timestamp_desc" -> PyStr("d")
          [] k = "datetime" -> dt
          [] k = "timestamp" -> ts] :
        K \in SUBSET {"message", "datetime", "timestamp_desc", "timestamp"},
        dt \in {PyStr("1970-01-01 00:00:07"), PyStr("not a date")},
        ts \in {PyInt(1420113600), PyStr("1420113600123"), PyStr("abc")}}

JsonLines ==
    {Line("blank", <<>>), Line("garbage", <<>>), Line("array", <<>>)}
    \cup {Line("object", o) : o \in JsonObjects}

---------------------------------------------------------------------------
(* Specifications.                                                         *)

InitIndices ==
    /\ fn = "get_validated_indices" /\ pc = "called"
    /\ indices \in SeqsUpTo(IndexNames, MaxIndices)
    /\ sketch_indices \in SeqsUpTo(IndexNames, MaxIndices)
    /\ validated = <<>>
    /\ csv_header = <<>> /\ csv_dialect = "" /\ csv_rows = <<>> /\ reader = 0
    /\ jsonl_lines = <<>> /\ lineno = 0
    /\ fh = "unopened" /\ out = <<>> /\ err = NoError /\ skipped = <<>>

InitDialect ==
    /\ fn = "get_csv_dialect" /\ pc = "called"
    /\ csv_header \in HeaderInputs
    /\ indices = <<>> /\ sketch_indices = <<>> /\ validated = <<>>
    /\ csv_dialect = "" /\ csv_rows = <<>> /\ reader = 0
    /\ jsonl_lines = <<>> /\ lineno = 0
    /\ fh = "unopened" /\ out = <<>> /\ err = NoError /\ skipped = <<>>

InitCsv ==
    /\ fn = "read_and_validate_csv" /\ pc = "created"
    /\ csv_header \in CsvHeaders
    /\ csv_rows \in SeqsUpTo(DataRows(csv_header), MaxRows)
    /\ indices = <<>> /\ sketch_indices = <<>> /\ validated = <<>>
    /\ csv_dialect = "" /\ reader = 0
    /\ jsonl_lines = <<>> /\ lineno = 0
    /\ fh = "unopened" /\ out = <<>> /\ err = NoError /\ skipped = <<>>

InitJsonl ==
    /\ fn = "read_and_validate_jsonl" /\ pc = "created"
    /\ jsonl_lines \in SeqsUpTo(JsonLines, MaxLines)
    /\ indices = <<>> /\ sketch_indices = <<>> /\ validated = <<>>
    /\ csv_header = <<>> /\ csv_dialect = "" /\ csv_rows = <<>> /\ reader = 0
    /\ lineno = 0
    /\ fh = "unopened" /\ out = <<>> /\ err = NoError /\ skipped = <<>>

SpecIndices == InitIndices /\ [][GetValidatedIndices]_vars

SpecDialect == InitDialect /\ [][GetCsvDialect]_vars

NextCsv == CsvFirstPull \/ CsvPull \/ GenClose

SpecCsv == InitCsv /\ [][NextCsv]_vars

NextJsonl == JsonlFirstPull \/ JsonlPull \/ GenClose

SpecJsonl == InitJsonl /\ [][NextJsonl]_vars

Init == InitCsv \/ InitJsonl

Next == CsvFirstPull \/ CsvPull \/ JsonlFirstPull \/ JsonlPull \/ GenClose

Spec == Init /\ [][Next]_vars

---------------------------------------------------------------------------
(* Vocabulary of the properties.                                           *)

CsvRun == fn = "read_and_validate_csv"

JsonlRun == fn = "read_and_validate_jsonl"

\* the generator has run at least once
Started == pc \in {"suspended", "done", "failed"} \/ fh # "unopened"

\* the data rows / lines the yielded rows came from, in the order yielded
Sources(o) == [i \in 1..Len(o) |-> o[i].src]

Upto(n) == [i \in 1..n |-> i]

RequiredKeys == {"message", "timestamp", "datetime", "timestamp_desc"}

\* the rows of the file read so far: data rows with cells, or lines
Consumed ==
    IF CsvRun THEN {i \in 1..reader : csv_rows[i] # <<>>} ELSE 1..lineno

\* the last row read is the one the generator failed on
FailedOn(i) == pc = "failed" /\ i = (IF CsvRun THEN reader ELSE lineno)

\* a data row the timesketch loop passed over because its datetime cell is
\* a string that holds no date
DroppedForDate(i) ==
    /\ CsvRun
    /\ csv_dialect = "timesketch"
    /\ i \in Range(skipped)
    /\ DictRow(csv_header, csv_rows[i])["datetime"].t = "str"
    /\ DictRow(csv_header, csv_rows[i])["datetime"].s
           \notin DOMAIN DateStrings

AllRowsComplete ==
    \A i \in 1..Len(out) : RequiredKeys \subseteq DOMAIN out[i].row

---------------------------------------------------------------------------
(* C1 *)

\* C1, as claimed: under both readers every yielded row has the four keys
\* message, timestamp, datetime, timestamp_desc, and a row of the file that
\* is not yielded made the generator fail.
C1_YieldedCompleteOrFailed ==
    (CsvRun \/ JsonlRun) =>
        /\ AllRowsComplete
        /\ \A i \in Consumed : i \in Range(Sources(out)) \/ FailedOn(i)

\* C1, amended: under both readers every yielded row has the four keys; a
\* row of the file that is not yielded either made the generator fail or is
\* a timesketch CSV row dropped because its datetime holds no date.
C1_YieldedCompleteOrFailedOrDropped ==
    (CsvRun \/ JsonlRun) =>
        /\ AllRowsComplete
        /\ \A i \in Consumed :
              i \in Range(Sources(out)) \/ FailedOn(i) \/ DroppedForDate(i)

\* a timesketch CSV run that dropped a row and then yielded a later one
C1_Witness ==
    /\ CsvRun
    /\ skipped # <<>>
    /\ out # <<>>
    /\ out[Len(out)].src > skipped[1]
    /\ "timestamp" \notin Range(csv_header)

---------------------------------------------------------------------------
(* C2 *)

\* C2: when get_csv_dialect finds no dialect for the header, the first pull
\* of read_and_validate_csv fails with RuntimeError 'Unknown CSV format'
\* and no row is yielded.
C2_UnknownFormatRaisesRuntimeError ==
    (CsvRun /\ Started /\ get_csv_dialect(csv_header) = NoDialect) =>
        /\ pc = "failed"
        /\ err.type = "RuntimeError"
        /\ err.text = "Unknown CSV format"
        /\ out = <<>>

---------------------------------------------------------------------------
(* C3 *)

\* the line holds no JSON value
NotJson(line) == line.kind \in {"blank", "garbage"}

\* the line is a JSON object that comes out as a row
RowLine(line) ==
    /\ line.kind = "object"
    /\ {"message", "timestamp_desc"} \subseteq DOMAIN line.obj
    /\ \/ "timestamp" \in DOMAIN line.obj
          /\ \/ "datetime" \in DOMAIN line.obj
             \/ line.obj["timestamp"].t = "int"
             \/ line.obj["timestamp"].s = "1420113600123"
       \/ "timestamp" \notin DOMAIN line.obj
          /\ "datetime" \in DOMAIN line.obj
          /\ line.obj["datetime"].s \in DOMAIN DateStrings

\* the yielded row keeps every key and value of its line
KeepsLine(i) ==
    \A k \in DOMAIN jsonl_lines[out[i].src].obj :
        /\ k \in DOMAIN out[i].row
        /\ out[i].row[k] = jsonl_lines[out[i].src].obj[k]

\* C3: if lines 1..k-1 of a JSONL file are rows and line k is not JSON, the
\* generator yields the rows of lines 1..k-1 in file order, then fails with
\* a RuntimeError carrying line number k, and reads nothing after line k.
C3_BadJsonStopsAtLineK ==
    JsonlRun =>
        \A k \in 1..Len(jsonl_lines) :
            (/\ NotJson(jsonl_lines[k])
             /\ \A j \in 1..(k - 1) : RowLine(jsonl_lines[j])) =>
                /\ lineno <= k
                /\ pc # "done"
                /\ Sources(out) = Upto(Len(out))
                /\ Len(out) = (IF lineno = k THEN k - 1 ELSE lineno)
                /\ \A i \in 1..Len(out) : KeepsLine(i)
                /\ lineno = k =>
                      /\ pc = "failed"
                      /\ err.type = "RuntimeError"
                      /\ err.text = "Error parsing JSON at line"
                      /\ err.line = k

\* line 1 was yielded, line 2 is not JSON and ended the generator
C3_Witness ==
    /\ JsonlRun
    /\ pc = "failed"
    /\ lineno = 2
    /\ Len(out) = 1
    /\ jsonl_lines[2].kind = "garbage"
    /\ err.line = 2

---------------------------------------------------------------------------
(* C4 *)

\* timesketch dialect, no timestamp column in the header
DerivesTimestamp ==
    /\ CsvRun
    /\ timesketch_fields \subseteq Range(csv_header)
    /\ ~(redline_fields \subseteq Range(csv_header))
    /\ "timestamp" \notin Range(csv_header)

\* the datetime cell of data row i holds a date
ParsableDate(i) ==
    /\ DictRow(csv_header, csv_rows[i])["datetime"].t = "str"
    /\ DictRow(csv_header, csv_rows[i])["datetime"].s \in DOMAIN DateStrings

\* the data rows (rows with cells) whose datetime holds a date, in file order
ParsableRows ==
    SelectSeq(Upto(Len(csv_rows)),
              LAMBDA i : csv_rows[i] # <<>> /\ ParsableDate(i))

\* C4: on a timesketch CSV file without a timestamp column, a row whose
\* datetime cannot be parsed (an empty or missing value included) is left
\* out and raises no error, and the rows yielded are exactly the rows with
\* a parsable datetime, in file order.
C4_UnparsableRowsOmitted ==
    (DerivesTimestamp /\ Started) =>
        /\ pc # "failed"
        /\ err = NoError
        /\ pc = "done" => Sources(out) = ParsableRows

---------------------------------------------------------------------------
(* C5 *)

\* the elements of s that are in S, in the order and number they have in s
RECURSIVE KeepMembers(_, _)
KeepMembers(s, S) ==
    IF s = <<>> THEN <<>>
    ELSE IF s[1] \in S THEN <<s[1]>> \o KeepMembers(Tail(s), S)
    ELSE KeepMembers(Tail(s), S)

\* C5: get_validated_indices returns the subsequence of indices made of the
\* elements that occur in sketch_indices, order and duplicates kept, and
\* returns indices itself when all of its elements occur in sketch_indices.
C5_ValidatedIsSubsequence ==
    (fn = "get_validated_indices" /\ pc = "returned") =>
        /\ validated = KeepMembers(indices, Range(sketch_indices))
        /\ Range(indices) \subseteq Range(sketch_indices) =>
              validated = indices

\* a duplicated name survives twice, a name not in the sketch is removed
C5_Witness ==
    /\ fn = "get_validated_indices"
    /\ pc = "returned"
    /\ indices = <<"a", "b", "a">>
    /\ sketch_indices = <<"c", "a">>
    /\ validated = <<"a", "a">>

---------------------------------------------------------------------------
(* C6 *)

\* C6: get_csv_dialect returns redline iff the header contains the five
\* redline fields, timesketch iff it does not and contains the three
\* timesketch fields, and None otherwise; a header with both sets is
\* redline.
C6_DialectBySuperset ==
    (fn = "get_csv_dialect" /\ pc = "returned") =>
        /\ csv_dialect = "redline" <=>
              redline_fields \subseteq Range(csv_header)
        /\ csv_dialect = "timesketch" <=>
              /\ ~(redline_fields \subseteq Range(csv_header))
              /\ timesketch_fields \subseteq Range(csv_header)
        /\ csv_dialect = NoDialect <=>
              /\ ~(redline_fields \subseteq Range(csv_header))
              /\ ~(timesketch_fields \subseteq Range(csv_header))

\* a header with both field sets, a repeated column and reversed order
C6_Witness ==
    /\ fn = "get_csv_dialect"
    /\ pc = "returned"
    /\ redline_fields \cup timesketch_fields \subseteq Range(csv_header)
    /\ Len(csv_header) > Cardinality(Range(csv_header))
    /\ csv_header[1] = "timestamp"
    /\ csv_dialect = "redline"

---------------------------------------------------------------------------
(* C7 *)

\* C7: under both readers the file is closed once the generator has ended
\* (exhausted, failed, or given up by the caller), it is open while the
\* generator is suspended at a yield, and a generator that never ran has
\* opened nothing.
C7_FileReleased ==
    (CsvRun \/ JsonlRun) =>
        /\ pc \in {"done", "failed"} => fh = "closed"
        /\ pc = "closed" => fh \in {"closed", "unopened"}
        /\ pc = "suspended" => fh = "open"
        /\ pc = "created" => fh = "unopened"
        /\ fh = "unopened" => out = <<>>

\* a fatal error after a row was yielded, the file closed
C7_Witness ==
    /\ pc = "failed"
    /\ out # <<>>
    /\ fh = "closed"

---------------------------------------------------------------------------
(* C8 *)

\* the lines that are not blank, in file order
NonBlankLines ==
    SelectSeq(Upto(Len(jsonl_lines)),
              LAMBDA i : jsonl_lines[i].kind # "blank")

\* C8, as claimed: when every non-blank line is a JSON object that comes
\* out as a row, blank lines give no row and no error, and the rows yielded
\* are one per non-blank line, in file order.
C8_OneRowPerNonBlankLine ==
    (/\ JsonlRun
     /\ \A i \in 1..Len(jsonl_lines) :
           jsonl_lines[i].kind = "blank" \/ RowLine(jsonl_lines[i])) =>
        /\ pc # "failed"
        /\ err = NoError
        /\ pc = "done" => Sources(out) = NonBlankLines

\* C8, amended: the rows yielded are one per line read, in file order,
\* nothing passed over; the generator comes to the end of the file exactly
\* when every line gave a row, and the rows are then as many as the lines;
\* when every line is a JSON object that comes out as a row there is no
\* error; a blank line that is reached is not passed over: it ends the
\* generator with the parse RuntimeError carrying its line number.
C8_OneRowPerLine ==
    JsonlRun =>
        /\ Sources(out) = Upto(Len(out))
        /\ Len(out) = (IF pc = "failed" THEN lineno - 1 ELSE lineno)
        /\ pc = "done" =>
              /\ Len(out) = Len(jsonl_lines)
              /\ \A i \in 1..Len(jsonl_lines) : RowLine(jsonl_lines[i])
        /\ (\A i \in 1..Len(jsonl_lines) : RowLine(jsonl_lines[i])) =>
              pc # "failed" /\ err = NoError
        /\ (lineno >= 1 /\ jsonl_lines[lineno].kind = "blank") =>
              /\ pc = "failed"
              /\ err = Error("RuntimeError", "Error parsing JSON at line",
                             lineno, <<>>)

\* a row, then a blank line that ended the generator
C8_Witness ==
    /\ JsonlRun
    /\ pc = "failed"
    /\ lineno = 2
    /\ jsonl_lines[2].kind = "blank"
    /\ Len(out) = 1
    /\ err.text = "Error parsing JSON at line"

---------------------------------------------------------------------------
(* C9 *)

\* the keys of a JSON object once datetime and timestamp are backfilled
\* from each other
KeysAfterBackfill(obj) ==
    IF {"datetime", "timestamp"} \cap DOMAIN obj # {}
    THEN DOMAIN obj \cup {"datetime", "timestamp"}
    ELSE DOMAIN obj

\* the mandatory fields the object still lacks then, in their fixed order
Lacking(obj) ==
    SelectSeq(<<"message", "datetime", "timestamp_desc">>,
              LAMBDA f : f \notin KeysAfterBackfill(obj))

\* the value the backfill reads can be converted: the leading 10 characters
\* of timestamp are an integer (datetime absent), datetime holds a date
\* (timestamp absent)
BackfillConverts(obj) ==
    /\ ("timestamp" \in DOMAIN obj /\ "datetime" \notin DOMAIN obj) =>
          (obj["timestamp"].t = "int" \/ obj["timestamp"].s = "1420113600123")
    /\ ("datetime" \in DOMAIN obj /\ "timestamp" \notin DOMAIN obj) =>
          obj["datetime"].s \in DOMAIN DateStrings

\* the last line read is a JSON object
AtObject == JsonlRun /\ lineno >= 1 /\ jsonl_lines[lineno].kind = "object"

MissingFieldsError(n, fields) ==
    Error("RuntimeError", "Missing field(s) at line", n, fields)

\* C9, as claimed: a line that is a JSON object and after the backfill
\* lacks mandatory fields ends the generator with the RuntimeError that
\* carries its line number and names exactly the fields it lacks; the row
\* is not yielded; a line with timestamp and no datetime is never reported
\* to lack datetime.
C9_MissingFieldsNamed ==
    AtObject =>
        /\ Lacking(jsonl_lines[lineno].obj) # <<>> =>
              /\ pc = "failed"
              /\ err = MissingFieldsError(lineno,
                                          Lacking(jsonl_lines[lineno].obj))
              /\ Sources(out) = Upto(lineno - 1)
        /\ ("timestamp" \in DOMAIN jsonl_lines[lineno].obj
            /\ err.text = "Missing field(s) at line") =>
              "datetime" \notin Range(err.fields)

\* C9, amended: the same, for a line whose backfill converts; a line whose
\* backfill does not convert (timestamp without leading integer, datetime
\* without a date) ends the generator with the RuntimeError 'Error parsing
\* JSON at line' carrying its line number, whatever fields it lacks.
C9_MissingFieldsNamedWhenBackfillConverts ==
    AtObject =>
        /\ (/\ Lacking(jsonl_lines[lineno].obj) # <<>>
            /\ BackfillConverts(jsonl_lines[lineno].obj)) =>
              /\ pc = "failed"
              /\ err = MissingFieldsError(lineno,
                                          Lacking(jsonl_lines[lineno].obj))
              /\ Sources(out) = Upto(lineno - 1)
        /\ ~BackfillConverts(jsonl_lines[lineno].obj) =>
              /\ pc = "failed"
              /\ err = Error("RuntimeError", "Error parsing JSON at line",
                             lineno, <<>>)
              /\ Sources(out) = Upto(lineno - 1)
        /\ ("timestamp" \in DOMAIN jsonl_lines[lineno].obj
            /\ err.text = "Missing field(s) at line") =>
              "datetime" \notin Range(err.fields)

\* line 2 has a timestamp and no datetime, message or timestamp_desc: the
\* error names the two fields the backfill cannot supply
C9_Witness ==
    /\ JsonlRun
    /\ lineno = 2
    /\ pc = "failed"
    /\ DOMAIN jsonl_lines[2].obj = {"timestamp"}
    /\ err = MissingFieldsError(2, <<"message", "timestamp_desc">>)
    /\ Len(out) = 1

---------------------------------------------------------------------------
(* C10 *)

\* the timestamp of the i-th yielded row
TimestampOf(i) == out[i].row["timestamp"]

\* the row of the file the i-th yielded row came from
SourceRow(i) == DictRow(csv_header, csv_rows[out[i].src])

\* the yielded row is on the JSONL path that backfills timestamp
BackfilledFromDatetime(i) ==
    JsonlRun /\ "timestamp" \notin DOMAIN jsonl_lines[out[i].src].obj

\* whole seconds since the epoch, times 1,000,000
EpochMicros(v, datecell) ==
    /\ v.t = "int"
    /\ v.n % 1000000 = 0
    /\ v.n = DateStrings[datecell.s][1] * 1000000

\* C10, as claimed: every yielded row of both readers has an integer
\* timestamp, but for the JSONL rows whose timestamp is backfilled from
\* datetime.
C10_TimestampIsInteger ==
    (CsvRun \/ JsonlRun) =>
        \A i \in 1..Len(out) :
            ~BackfilledFromDatetime(i) => TimestampOf(i).t = "int"

\* C10, amended: the timestamp is an integer of epoch microseconds (whole
\* seconds times 1,000,000) on the two paths that derive it, redline CSV
\* rows and timesketch CSV rows without a timestamp column; a timesketch
\* CSV row under a header with a timestamp column keeps the cell as it was
\* read (a string, None for a short row); a JSONL row that carries a
\* timestamp keeps the value of its line; a JSONL row without one gets
\* the parsed datetime object.
C10_TimestampByPath ==
    (CsvRun \/ JsonlRun) =>
        \A i \in 1..Len(out) :
            /\ (CsvRun /\ csv_dialect = "redline") =>
                  EpochMicros(TimestampOf(i), SourceRow(i)["Timestamp"])
            /\ (CsvRun /\ csv_dialect = "timesketch"
                /\ "timestamp" \notin Range(csv_header)) =>
                  EpochMicros(TimestampOf(i), SourceRow(i)["datetime"])
            /\ (CsvRun /\ csv_dialect = "timesketch"
                /\ "timestamp" \in Range(csv_header)) =>
                  /\ TimestampOf(i) = SourceRow(i)["timestamp"]
                  /\ TimestampOf(i).t \in {"str", "none"}
            /\ (JsonlRun /\ ~BackfilledFromDatetime(i)) =>
                  TimestampOf(i) = jsonl_lines[out[i].src].obj["timestamp"]
            /\ BackfilledFromDatetime(i) => TimestampOf(i).t = "datetime"

\* a timesketch CSV row passed through with its timestamp cell, a string,
\* and a row before it
C10_Witness ==
    /\ CsvRun
    /\ "timestamp" \in Range(csv_header)
    /\ Len(out) = 2
    /\ TimestampOf(2) = PyStr("7000000")

=============================================================================
